---- MODULE Spec2Model ----
(***************************************************************************)
(* A model of the quiz application (quiz_app/models.py, quiz_app/views.py, *)
(* quiz_app/urls.py): the three tables Question, Answer and UserAnswer,    *)
(* the User table and the login session of each browser, and one action    *)
(* per view and HTTP method.                                               *)
(*                                                                         *)
(*   Spec      one browser drives index (login), logout, load_questions,   *)
(*             add_question and quiz_results; every view runs as a whole.  *)
(*             The User table starts with two registered accounts.         *)
(*   SpecAuthor the same browser with login, logout and add_question only,  *)
(*             and forms of up to MaxFormFields answers.                   *)
(*   SpecReg   two browsers run the register view concurrently, one        *)
(*             database statement per step; the database starts empty.     *)
(*   SpecScore UserAnswer.calculate_score called repeatedly on a stored    *)
(*             record.                                                     *)
(***************************************************************************)
EXTENDS Integers, Sequences, FiniteSets, TLC

\* ---------------------------------------------------------------- bounds
MaxQuestions == 2
MaxAnswers == 2
MaxUserAnswers == 2
MaxUsers == 2
MaxScoreParam == 3
MaxCalls == 3
\* answer_text_* fields of one add_question form, in SpecAuthor
MaxFormFields == 3
\* questions authored in SpecAuthor
MaxAuthorQuestions == 1

\* ---------------------------------------------------------------- inputs
Clients == {"c1", "c2"}
Browser == "c1"

Usernames == {"ann", "bob"}
\* an email address is <<local part, domain>>
Emails == {<<"a", "x.io">>, <<"a", "X.io">>, <<"b", "x.io">>}
Passwords == {"pw1"}
LoginUsernames == Usernames \cup {"eve"}
LoginPasswords == Passwords \cup {"bad"}

QuestionTexts == {"", "Capital of France?"}
AnswerTexts == {"Paris"}
\* the part of a field name after 'answer_text_', split at "_"
Suffixes == {<<"1">>, <<"2">>, <<"1", "2">>}
Indexes == {"1", "2"}
\* the value of an is_correct_<index> field; Absent: the field is not sent
Absent == "<absent>"
FlagValues == {"on", "off", Absent}

\* user id of django's AnonymousUser; stored users have ids 1, 2, ...
Anonymous == 0
\* the value of a question_<id> field that is missing or empty
NoSelection == 0
\* Answer.objects.filter(...).first() on no match
None == 0
NoScore == 0 - 1

VARIABLES users, session, questions, answers, userAnswers, request, response,
          pc, local, regResponse, scoreLog

vars == <<users, session, questions, answers, userAnswers, request, response,
          pc, local, regResponse, scoreLog>>

tables == <<questions, answers, userAnswers>>

\* ------------------------------------------------------------- responses
NoPercentage == <<0, 0>>

Response(kind, name, score, error) ==
    [kind |-> kind, name |-> name, score |-> score, error |-> error,
     total |-> NoScore, percentage |-> NoPercentage]

Redirect(name) == Response("redirect", name, NoScore, "")

RedirectScore(name, score) == Response("redirect", name, score, "")

Render(template, error) == Response("render", template, NoScore, error)

ServerError(exception) == Response("error", "500", NoScore, exception)

NoResponse == Response("none", "", NoScore, "")

\* a request as the view sees it: request.method, request.user, request.POST
Request(view, method, user, post) ==
    [view |-> view, method |-> method, user |-> user, post |-> post]

NoPost == << >>

NoRequest == Request("", "", Anonymous, NoPost)

\* ---------------------------------------------------------------- models
\* Question(text); the id of a Question is its index in `questions`
Question(text) == [text |-> text]

\* Answer(question, text, correct); the id is the index in `answers`
Answer(question, text, correct) ==
    [question |-> question, text |-> text, correct |-> correct]

DefaultScore == 0

\* UserAnswer(user, question, selected_answer, score = 0)
UserAnswer(user, question, selected_answer) ==
    [user |-> user, question |-> question,
     selected_answer |-> selected_answer, score |-> DefaultScore]

\* calculate_score with the branches swapped
CalculateScoreInverted(ua, answerTable) ==
    IF answerTable[ua.selected_answer].correct
    THEN [ua EXCEPT !.score = 0]
    ELSE [ua EXCEPT !.score = 1]

\* calculate_score that ignores the correct flag
CalculateScoreAlwaysOne(ua, answerTable) == [ua EXCEPT !.score = 1]

\* calculate_score that adds the point to the stored score
CalculateScoreAccumulate(ua, answerTable) ==
    IF answerTable[ua.selected_answer].correct
    THEN [ua EXCEPT !.score = @ + 1]
    ELSE ua

\* UserAnswer.calculate_score: the record as saved by it
CalculateScore(ua, answerTable) ==
    IF answerTable[ua.selected_answer].correct
    THEN [ua EXCEPT !.score = 1]
    ELSE [ua EXCEPT !.score = 0]

\* Answer.objects.filter(id=selected_answer_id).first()
FirstAnswerWithId(id, answerTable) ==
    IF id \in 1..Len(answerTable) THEN id ELSE None

SeedUsers ==
    << [username |-> "ann", email |-> <<"a", "x.io">>, password |-> "pw1"],
       [username |-> "bob", email |-> <<"b", "x.io">>, password |-> "pw1"] >>

\* a view without its authentication gate
IsAuthenticatedAlways(c) == TRUE

\* request.user.is_authenticated
IsAuthenticated(c) == session[c] # Anonymous

\* ------------------------------------------------------ load_questions
\* the loop of load_questions from question q on (questions come in id
\* order); st is the state of the loop: the UserAnswer table, total_score,
\* and whether a statement raised. Each create() and save() commits on its
\* own, so the rows written before a statement raises stay.
RECURSIVE SubmitFrom(_, _, _, _, _, _)
SubmitFrom(q, numQuestions, post, user, answerTable, st) ==
    IF q > numQuestions THEN st
    ELSE IF post[q] = NoSelection
    THEN SubmitFrom(q + 1, numQuestions, post, user, answerTable, st)
    ELSE LET selected_answer == FirstAnswerWithId(post[q], answerTable)
         IN  IF selected_answer = None
             \* UserAnswer.selected_answer is not nullable: create() raises
             THEN [st EXCEPT !.raised = TRUE]
             ELSE LET user_answer ==
                          CalculateScore(UserAnswer(user, q, selected_answer),
                                         answerTable)
                  IN  SubmitFrom(q + 1, numQuestions, post, user, answerTable,
                          [st EXCEPT !.rows = Append(@, user_answer),
                                     !.total_score = @ + user_answer.score])

SubmitQuiz(post, user, questionTable, answerTable, rows) ==
    SubmitFrom(1, Len(questionTable), post, user, answerTable,
               [rows |-> rows, total_score |-> 0, raised |-> FALSE])

QuizForms == [1..Len(questions) -> {NoSelection} \cup (1..(MaxAnswers + 1))]

LoadQuestionsGet(c) ==
    /\ request' = Request("load_questions", "GET", session[c], NoPost)
    /\ response' = IF ~IsAuthenticated(c) THEN Redirect("index")
                   ELSE Render("quiz_page.html", "")
    /\ UNCHANGED <<users, session, tables, pc, local, regResponse, scoreLog>>

LoadQuestionsPost(c, post) ==
    LET out == SubmitQuiz(post, session[c], questions, answers, userAnswers)
    IN  /\ request' = Request("load_questions", "POST", session[c], post)
        /\ IF ~IsAuthenticated(c)
           THEN /\ response' = Redirect("index")
                /\ UNCHANGED userAnswers
           ELSE /\ Len(out.rows) <= MaxUserAnswers
                /\ userAnswers' = out.rows
                /\ response' = IF out.raised THEN ServerError("IntegrityError")
                               ELSE RedirectScore("quiz_results", out.total_score)
        /\ UNCHANGED <<users, session, questions, answers, pc, local,
                       regResponse, scoreLog>>

\* ------------------------------------------------------- index, logout
\* auth.authenticate: the id of the user with these credentials, or None
Authenticate(username, password) ==
    IF \E i \in 1..Len(users) :
           users[i].username = username /\ users[i].password = password
    THEN CHOOSE i \in 1..Len(users) :
           users[i].username = username /\ users[i].password = password
    ELSE None

IndexGet(c) ==
    /\ request' = Request("index", "GET", session[c], NoPost)
    /\ response' = Render("index.html", "")
    /\ UNCHANGED <<users, session, tables, pc, local, regResponse, scoreLog>>

IndexPost(c, username, password) ==
    LET user == Authenticate(username, password)
    IN  /\ request' = Request("index", "POST", session[c], NoPost)
        /\ IF user # None
           THEN /\ session' = [session EXCEPT ![c] = user]
                /\ response' = Redirect("index")
           ELSE /\ response' = Render("index.html", "Invalid username or password")
                /\ UNCHANGED session
        /\ UNCHANGED <<users, tables, pc, local, regResponse, scoreLog>>

LogoutView(c) ==
    /\ request' = Request("logout", "GET", session[c], NoPost)
    /\ session' = [session EXCEPT ![c] = Anonymous]
    /\ response' = Redirect("/")
    /\ UNCHANGED <<users, tables, pc, local, regResponse, scoreLog>>

\* -------------------------------------------------------- quiz_results
\* a / b as the fraction <<a, b>>; ZeroDivision when b = 0
ZeroDivision == <<1, 0>>

Divide(a, b) == IF b = 0 THEN ZeroDivision ELSE <<a, b>>

Times(f, n) == IF f = ZeroDivision THEN ZeroDivision ELSE <<f[1] * n, f[2]>>

\* the percentage without the total_questions > 0 guard
PercentageScoreUnguarded(score, total_questions) ==
    Times(Divide(score, total_questions), 100)

PercentageScore(score, total_questions) ==
    IF total_questions > 0 THEN Times(Divide(score, total_questions), 100)
    ELSE <<0, 1>>

QuizResults(c, score) ==
    LET total_questions == Len(questions)
        percentage_score == PercentageScore(score, total_questions)
    IN  /\ request' = Request("quiz_results", "GET", session[c], <<score>>)
        /\ response' =
              IF percentage_score = ZeroDivision
              THEN ServerError("ZeroDivisionError")
              ELSE [Render("quiz_results.html", "") EXCEPT
                        !.score = score, !.total = total_questions,
                        !.percentage = percentage_score]
        /\ UNCHANGED <<users, session, tables, pc, local, regResponse, scoreLog>>

\* -------------------------------------------------------- add_question
SeqsDistinct(S, n) ==
    {s \in UNION {[1..k -> S] : k \in 0..n} :
        \A i, j \in DOMAIN s : i # j => s[i] # s[j]}

\* key.split("_")[-1]
LastToken(suffix) == suffix[Len(suffix)]

\* correct whenever the is_correct field is sent, whatever its value
IsCorrectWhenPresent(suffix, flags) == flags[LastToken(suffix)] # Absent

\* request.POST.get(f'is_correct_{index}', False) == 'on'
IsCorrect(suffix, flags) == flags[LastToken(suffix)] = "on"

\* the Answer rows created by the loop over request.POST.items()
AnswersFromPost(question, fields, values, flags) ==
    [i \in 1..Len(fields) |->
        Answer(question, values[fields[i]], IsCorrect(fields[i], flags))]

\* QuestionForm(request.POST).is_valid()
QuestionFormIsValid(text) == text # ""

AddQuestionGet(c) ==
    /\ request' = Request("add_question", "GET", session[c], NoPost)
    /\ response' = IF ~IsAuthenticated(c) THEN Redirect("index")
                   ELSE Render("add_question.html", "")
    /\ UNCHANGED <<users, session, tables, pc, local, regResponse, scoreLog>>

AddQuestionPost(c, text, fields, values, flags) ==
    /\ request' = Request("add_question", "POST", session[c],
                          [text |-> text, fields |-> fields, flags |-> flags])
    /\ IF ~IsAuthenticated(c)
       THEN /\ response' = Redirect("index")
            /\ UNCHANGED <<questions, answers>>
       ELSE IF QuestionFormIsValid(text)
       THEN /\ Len(questions) < MaxQuestions
            /\ questions' = Append(questions, Question(text))
            /\ answers' = answers \o
                   AnswersFromPost(Len(questions) + 1, fields, values, flags)
            /\ response' = Redirect("add_question")
       ELSE /\ response' = Render("add_question.html", "")
            /\ UNCHANGED <<questions, answers>>
    /\ UNCHANGED <<users, session, userAnswers, pc, local, regResponse, scoreLog>>

\* ------------------------------------------------------- specification
Init ==
    /\ users = SeedUsers
    /\ session = [c \in Clients |-> Anonymous]
    /\ questions = << >>
    /\ answers = << >>
    /\ userAnswers = << >>
    /\ request = NoRequest
    /\ response = NoResponse
    /\ pc = [c \in Clients |-> "idle"]
    /\ local = [c \in Clients |-> << >>]
    /\ regResponse = [c \in Clients |-> NoResponse]
    /\ scoreLog = << >>

Next ==
    \/ IndexGet(Browser)
    \/ \E u \in LoginUsernames, p \in LoginPasswords : IndexPost(Browser, u, p)
    \/ LogoutView(Browser)
    \/ LoadQuestionsGet(Browser)
    \/ \E post \in QuizForms : LoadQuestionsPost(Browser, post)
    \/ \E score \in 0..MaxScoreParam : QuizResults(Browser, score)
    \/ AddQuestionGet(Browser)
    \/ \E text \in QuestionTexts,
          fields \in SeqsDistinct(Suffixes, MaxAnswers - Len(answers)),
          values \in [Suffixes -> AnswerTexts],
          flags \in [Indexes -> FlagValues] :
          AddQuestionPost(Browser, text, fields, values, flags)

Spec == Init /\ [][Next]_vars

\* the authoring views alone, with longer forms
NextAuthor ==
    \/ \E u \in LoginUsernames, p \in LoginPasswords : IndexPost(Browser, u, p)
    \/ LogoutView(Browser)
    \/ AddQuestionGet(Browser)
    \/ \E text \in QuestionTexts,
          fields \in IF Len(questions) < MaxAuthorQuestions
                     THEN SeqsDistinct(Suffixes, MaxFormFields) ELSE {},
          values \in [Suffixes -> AnswerTexts],
          flags \in [Indexes -> FlagValues] :
          AddQuestionPost(Browser, text, fields, values, flags)

SpecAuthor == Init /\ [][NextAuthor]_vars

\* ------------------------------------------------------------ register
\* User.objects.filter(username=username).exists()
UsernameExists(username, userTable) ==
    \E i \in 1..Len(userTable) : userTable[i].username = username

\* an email check that was left out
EmailExistsNever(email, userTable) == FALSE

\* User.objects.filter(email=email).exists(): an exact, case-sensitive match
EmailExists(email, userTable) ==
    \E i \in 1..Len(userTable) : userTable[i].email = email

\* str.lower() on the domain part
Lower(domain) == IF domain = "X.io" THEN "x.io" ELSE domain

\* BaseUserManager.normalize_email, called by create_user
NormalizeEmail(email) == <<email[1], Lower(email[2])>>

InFlight == {c \in Clients : pc[c] # "idle"}

RegisterGet(c) ==
    /\ pc[c] = "idle"
    /\ regResponse' = [regResponse EXCEPT ![c] = Render("register.html", "")]
    /\ UNCHANGED <<users, session, tables, request, response, pc, local, scoreLog>>

\* the POST is read: username, email and password are the view's locals
RegisterPost(c, username, email, password) ==
    /\ pc[c] = "idle"
    /\ Len(users) + Cardinality(InFlight) < MaxUsers
    /\ pc' = [pc EXCEPT ![c] = "check_username"]
    /\ local' = [local EXCEPT ![c] =
           [username |-> username, email |-> email, password |-> password]]
    /\ regResponse' = [regResponse EXCEPT ![c] = NoResponse]
    /\ UNCHANGED <<users, session, tables, request, response, scoreLog>>

RegisterCheckUsername(c) ==
    /\ pc[c] = "check_username"
    /\ IF UsernameExists(local[c].username, users)
       THEN /\ regResponse' = [regResponse EXCEPT ![c] =
                   Render("register.html", "Username already exists")]
            /\ pc' = [pc EXCEPT ![c] = "idle"]
            /\ local' = [local EXCEPT ![c] = << >>]
       ELSE /\ pc' = [pc EXCEPT ![c] = "check_email"]
            /\ UNCHANGED <<regResponse, local>>
    /\ UNCHANGED <<users, session, tables, request, response, scoreLog>>

RegisterCheckEmail(c) ==
    /\ pc[c] = "check_email"
    /\ IF EmailExists(local[c].email, users)
       THEN /\ regResponse' = [regResponse EXCEPT ![c] =
                   Render("register.html", "Email already exists")]
            /\ pc' = [pc EXCEPT ![c] = "idle"]
            /\ local' = [local EXCEPT ![c] = << >>]
       ELSE /\ pc' = [pc EXCEPT ![c] = "create_user"]
            /\ UNCHANGED <<regResponse, local>>
    /\ UNCHANGED <<users, session, tables, request, response, scoreLog>>

\* User.objects.create_user, user.save(), auth.login and the redirect.
\* auth_user.username is UNIQUE: the INSERT of a taken username raises
RegisterCreateUser(c) ==
    /\ pc[c] = "create_user"
    /\ IF UsernameExists(local[c].username, users)
       THEN /\ regResponse' = [regResponse EXCEPT ![c] =
                   ServerError("IntegrityError")]
            /\ UNCHANGED <<users, session>>
       ELSE /\ users' = Append(users,
                   [username |-> local[c].username,
                    email |-> NormalizeEmail(local[c].email),
                    password |-> local[c].password])
            /\ session' = [session EXCEPT ![c] = Len(users) + 1]
            /\ regResponse' = [regResponse EXCEPT ![c] = Redirect("/")]
    /\ pc' = [pc EXCEPT ![c] = "idle"]
    /\ local' = [local EXCEPT ![c] = << >>]
    /\ UNCHANGED <<tables, request, response, scoreLog>>

InitReg ==
    /\ users = << >>
    /\ session = [c \in Clients |-> Anonymous]
    /\ questions = << >>
    /\ answers = << >>
    /\ userAnswers = << >>
    /\ request = NoRequest
    /\ response = NoResponse
    /\ pc = [c \in Clients |-> "idle"]
    /\ local = [c \in Clients |-> << >>]
    /\ regResponse = [c \in Clients |-> NoResponse]
    /\ scoreLog = << >>

NextReg ==
    \E c \in Clients :
        \/ RegisterGet(c)
        \/ \E u \in Usernames, e \in Emails, p \in Passwords :
               RegisterPost(c, u, e, p)
        \/ RegisterCheckUsername(c)
        \/ RegisterCheckEmail(c)
        \/ RegisterCreateUser(c)

SpecReg == InitReg /\ [][NextReg]_vars

\* ------------------------------------------- calculate_score, repeated
\* question banks add_question can leave behind
AnswerTables ==
    UNION {[1..n -> {Answer(q, t, b) :
                        q \in 1..MaxQuestions, t \in AnswerTexts, b \in BOOLEAN}]
           : n \in 1..MaxAnswers}

\* user_answer.calculate_score() on the stored record i
CalculateScoreCall(i) ==
    /\ Len(scoreLog) < MaxCalls
    /\ userAnswers' = [userAnswers EXCEPT ![i] = CalculateScore(@, answers)]
    /\ scoreLog' = Append(scoreLog, userAnswers'[i].score)
    /\ UNCHANGED <<users, session, questions, answers, request, response,
                   pc, local, regResponse>>

InitScore ==
    /\ users = SeedUsers
    /\ session = [c \in Clients |-> Anonymous]
    /\ questions = [q \in 1..MaxQuestions |-> Question("Capital of France?")]
    /\ answers \in AnswerTables
    /\ \E u \in 1..Len(SeedUsers), a \in 1..Len(answers), sc \in {0, 1} :
           userAnswers = << [UserAnswer(u, answers[a].question, a)
                                EXCEPT !.score = sc] >>
    /\ request = NoRequest
    /\ response = NoResponse
    /\ pc = [c \in Clients |-> "idle"]
    /\ local = [c \in Clients |-> << >>]
    /\ regResponse = [c \in Clients |-> NoResponse]
    /\ scoreLog = << >>

NextScore == \E i \in 1..Len(userAnswers) : CalculateScoreCall(i)

SpecScore == InitScore /\ [][NextScore]_vars

\* =============================================================== claims
IsQuizSubmission(req) ==
    req.view = "load_questions" /\ req.method = "POST" /\ req.user # Anonymous

\* the questions of a submitted quiz form that carry a selection
Selected(post) == {q \in DOMAIN post : post[q] # NoSelection}

\* the selections of a quiz form that resolve to a stored Answer marked correct
CorrectlySelected(post) ==
    {q \in Selected(post) :
        post[q] \in 1..Len(answers) /\ answers[post[q]].correct}

C2_UnauthenticatedIsRedirected ==
    [][(request'.view \in {"load_questions", "add_question"}
            /\ request'.user = Anonymous)
        => (response' = Redirect("index") /\ UNCHANGED <<users, tables>>)]_vars

C2_Witness ==
    /\ request.view = "load_questions"
    /\ request.method = "POST"
    /\ request.user = Anonymous
    /\ \E q \in DOMAIN request.post : request.post[q] \in 1..Len(answers)
    /\ response = Redirect("index")

\* C5: an authenticated quiz submission with a selected-answer id that
\* resolves to no stored Answer still ends in the redirect to quiz_results,
\* that question adding 0 to the total.
C5_UnresolvedSelectionIsTolerated ==
    (IsQuizSubmission(request)
        /\ \E q \in Selected(request.post) : request.post[q] \notin 1..Len(answers))
        => /\ response.kind = "redirect"
           /\ response.name = "quiz_results"
           /\ response.score = Cardinality(CorrectlySelected(request.post))

\* C6: every stored UserAnswer has score 0 or 1, and it is 1 exactly when
\* the selected Answer is marked correct.
C6_ScoreIsZeroOrOne ==
    \A i \in 1..Len(userAnswers) :
        /\ userAnswers[i].score \in {0, 1}
        /\ userAnswers[i].selected_answer \in 1..Len(answers)
        /\ userAnswers[i].score = 1
              <=> answers[userAnswers[i].selected_answer].correct

C6_Witness ==
    /\ \E i \in 1..Len(userAnswers) : userAnswers[i].score = 1
    /\ \E i \in 1..Len(userAnswers) : userAnswers[i].score = 0

\* C7: quiz_results never faults; the percentage is 0 when there is no
\* Question and 100 * score / total_questions otherwise; nothing is written.
C7_PercentageNeverFaults ==
    [][request'.view = "quiz_results"
        => /\ response'.kind = "render"
           /\ response'.score = request'.post[1]
           /\ response'.total = Len(questions)
           /\ response'.percentage[2] # 0
           /\ IF Len(questions) = 0
              THEN response'.percentage[1] = 0
              ELSE response'.percentage[1] * Len(questions)
                      = 100 * request'.post[1] * response'.percentage[2]
           /\ UNCHANGED <<users, session, tables>>]_vars

C7_Witness ==
    /\ request.view = "quiz_results"
    /\ request.post[1] = 2
    /\ Len(questions) = 0
    /\ response.kind = "render"
    /\ response.percentage[1] = 0

\* C9: an authenticated quiz submission appends one UserAnswer per question
\* with a non-empty selection (the user, the question, the selected answer),
\* none for the others, and changes no other row.
NewRecords(req) ==
    LET qs == Selected(req.post)
        nth[k \in 0..Cardinality(qs)] ==
            IF k = 0 THEN << >>
            ELSE LET q == CHOOSE q \in qs :
                              Cardinality({r \in qs : r < q}) = k - 1
                 IN  Append(nth[k - 1], q)
    IN  nth[Cardinality(qs)]

C9_OneRecordPerSelection ==
    [][IsQuizSubmission(request')
        => /\ Len(userAnswers') = Len(userAnswers) + Len(NewRecords(request'))
           /\ \A i \in 1..Len(userAnswers) : userAnswers'[i] = userAnswers[i]
           /\ \A k \in 1..Len(NewRecords(request')) :
                 LET ua == userAnswers'[Len(userAnswers) + k]
                     q == NewRecords(request')[k]
                 IN  /\ ua.user = request'.user
                     /\ ua.question = q
                     /\ ua.selected_answer = request'.post[q]
           /\ UNCHANGED <<questions, answers>>]_vars

\* C4: a valid authenticated add_question POST creates one Question and one
\* Answer per answer_text_ field, attached to it, correct exactly when the
\* is_correct_ field of the same index is 'on'.
C4_OneAnswerPerField ==
    [][(request'.view = "add_question" /\ request'.method = "POST"
            /\ request'.user # Anonymous /\ request'.post.text # "")
        => LET fields == request'.post.fields
               flags == request'.post.flags
           IN  /\ Len(questions') = Len(questions) + 1
               /\ \A i \in 1..Len(questions) : questions'[i] = questions[i]
               /\ Len(answers') = Len(answers) + Len(fields)
               /\ \A i \in 1..Len(answers) : answers'[i] = answers[i]
               /\ \A k \in 1..Len(fields) :
                     /\ answers'[Len(answers) + k].question = Len(questions')
                     /\ answers'[Len(answers) + k].correct
                           <=> flags[fields[k][Len(fields[k])]] = "on"]_vars

C4_Witness ==
    /\ request.view = "add_question"
    /\ request.method = "POST"
    /\ request.user # Anonymous
    /\ request.post.text # ""
    /\ Len(request.post.fields) = 3
    /\ Len(answers) = 3
    /\ Cardinality({i \in 1..3 : answers[i].correct}) = 1
    /\ \E x \in Indexes : request.post.flags[x] = "off"

\* C3: a register POST whose username is taken is answered 'Username already
\* exists', one whose email is taken (the username being new) 'Email already
\* exists'; neither creates an account nor logs in.
C3_DuplicateIsRejected ==
    [][\A c \in Clients :
        /\ (pc[c] = "check_username" /\ pc'[c] # "check_username"
               /\ \E i \in 1..Len(users) : users[i].username = local[c].username)
            => /\ regResponse'[c] = Render("register.html", "Username already exists")
               /\ pc'[c] = "idle"
               /\ UNCHANGED <<users, session>>
        /\ (pc[c] = "check_email" /\ pc'[c] # "check_email"
               /\ \E i \in 1..Len(users) : users[i].email = local[c].email)
            => /\ regResponse'[c] = Render("register.html", "Email already exists")
               /\ pc'[c] = "idle"
               /\ UNCHANGED <<users, session>>]_vars

C3_Witness ==
    /\ regResponse["c1"].error = "Username already exists"
    /\ regResponse["c2"].error = "Email already exists"
    /\ Len(users) = 1
    /\ session["c2"] = Anonymous

\* C10: after any register requests, interleaved or not, no two accounts
\* share a username and no two share an email.
C10_AccountsAreUnique ==
    \A i, j \in 1..Len(users) :
        i # j => /\ users[i].username # users[j].username
                 /\ users[i].email # users[j].email

\* C8: calculate_score called again on the same record, the selected Answer
\* unchanged, leaves the score the first call set.
C8_CalculateScoreIdempotent ==
    \A i, j \in 1..Len(scoreLog) : scoreLog[i] = scoreLog[j]

C8_Witness ==
    /\ Len(scoreLog) >= 2
    /\ scoreLog[1] = 1
    /\ userAnswers[1].score = 1

====
